---- MODULE Spec2Model ----
(***************************************************************************)
(* POS backend: the purchase transaction engine (routers/purchase_v2.py,   *)
(* the mounted handler, and routers/purchase.py, the older handler), the   *)
(* session life cycle of db.py, the tables of models.py, and the           *)
(* migration toolkit (scripts/migrate_sqlite_to_mysql.py,                  *)
(* scripts/fix_missing_trade_details.py,                                   *)
(* scripts/diagnose_trade_detail_conflicts.py,                             *)
(* scripts/fix_sqlite_schema.py) and the catalog handlers of               *)
(* routers/products.py.                                                    *)
(*                                                                         *)
(* Strings the code manipulates (strip, blank test) are sequences of       *)
(* one-character strings; Python None and SQL NULL are the value None.     *)
(***************************************************************************)
EXTENDS Integers, Sequences, FiniteSets, TLC

\* ------------------------------------------------------------------ bounds
\* Concurrent request slots (each handles one purchase request).
NReq == 2
\* Longest cart of the builder's input space.
MaxItems == 2
\* Batch size of the full copy (500 in the code, scaled down).
BatchSize == 2
\* Full-copy runs and gap-repair runs a behaviour may hold.
MaxRuns == 2

\* Python None / SQL NULL (an integer no column value of the model takes).
None == -1000

Reqs == 1..NReq

VARIABLES
    backend,        \* "sqlite" | "mysql": the engine db.py binds (db.py 16-30)
    schema,         \* the store's tables, columns and indexes
    products,       \* committed rows of table products (the app's store)
    trades,         \* committed rows of table trades
    trade_details,  \* committed rows of table trade_details
    trdAutoInc,     \* MySQL AUTO_INCREMENT counter of trades.TRD_ID
    pc,             \* per request: "idle" | "recv" | "flushed" | "done"
    payload,        \* per request: the request body and the handler it reached
    txn,            \* per request: rows held by its open session
    resp,           \* per request: the response sent
    src,            \* the migration source: [products, trades, trade_details]
    tool,           \* the running toolkit command (full copy or gap repair)
    runs            \* the toolkit runs that ended, oldest first

vars == <<backend, schema, products, trades, trade_details, trdAutoInc, pc, payload,
          txn, resp, src, tool, runs>>

storeVars == <<products, trades, trade_details>>
reqVars == <<pc, payload, txn, resp>>

\* ----------------------------------------------------------------- strings
sA == <<"A">>
sB == <<"B">>
sSpA == <<" ", "A">>
sBlank == <<" ">>
sEmpty == <<>>
s10 == <<"1", "0">>
s30 == <<"3", "0">>
s90 == <<"9", "0">>
s12 == <<"1", "2">>
s12Sp == <<"1", "2", " ">>
s9999999999 == <<"9", "9", "9", "9", "9", "9", "9", "9", "9", "9">>

RECURSIVE LStrip(_)
LStrip(s) == IF s # <<>> /\ Head(s) = " " THEN LStrip(Tail(s)) ELSE s

RECURSIVE RStrip(_)
RStrip(s) == IF s # <<>> /\ s[Len(s)] = " " THEN RStrip(SubSeq(s, 1, Len(s) - 1)) ELSE s

\* str.strip()
Strip(s) == RStrip(LStrip(s))

\* The absent optional string (None where the code expects a str): a sequence
\* no character sequence equals.
NoStr == <<"<None>">>

\* `x or ""` for an optional string: None and "" both give "".
OrEmpty(s) == IF s = NoStr THEN <<>> ELSE s

\* `s or d`: d when s is the empty string.
OrDefault(s, d) == IF s = <<>> THEN d ELSE s

\* -------------------------------------------------------------- arithmetic
Max(S) == CHOOSE x \in S : \A y \in S : y <= x
MaxOr0(S) == IF S = {} THEN 0 ELSE Max(S)

RECURSIVE SumSeq(_)
SumSeq(s) == IF s = <<>> THEN 0 ELSE Head(s) + SumSeq(Tail(s))

\* ------------------------------------------------------------------ tables
\* models.py: Product(PRD_ID, CODE, NAME, PRICE), Trade(TRD_ID, EMP_CD,
\* STORE_CD, POS_NO, TTL_AMT_EX_TAX, TOTAL_AMT), TradeDetail(DTL_ID, TRD_ID,
\* DTL_NO, PRD_ID, PRD_CODE, PRD_NAME, PRD_PRICE, TAX_CD, QTY).
\* Trade.DATETIME is left out: nothing in the code reads it.
Product(id, code, name, price) ==
    [PRD_ID |-> id, CODE |-> code, NAME |-> name, PRICE |-> price]

Trade(id, emp, store, pos, subtotal, total) ==
    [TRD_ID |-> id, EMP_CD |-> emp, STORE_CD |-> store, POS_NO |-> pos,
     TTL_AMT_EX_TAX |-> subtotal, TOTAL_AMT |-> total]

TradeDetail(id, trd, no, prdId, code, name, price, qty) ==
    [DTL_ID |-> id, TRD_ID |-> trd, DTL_NO |-> no, PRD_ID |-> prdId,
     PRD_CODE |-> code, PRD_NAME |-> name, PRD_PRICE |-> price,
     TAX_CD |-> s10, QTY |-> qty]

\* products: primary key PRD_ID, unique CODE.
ProductConflict(ps, row) ==
    \E x \in ps : x.PRD_ID = row.PRD_ID \/ x.CODE = row.CODE

\* trades: primary key TRD_ID.
TradeConflict(ts, row) == \E x \in ts : x.TRD_ID = row.TRD_ID

\* trade_details: primary key DTL_ID.
DetailPkConflict(ds, row) == \E x \in ds : x.DTL_ID = row.DTL_ID

\* trade_details: UniqueConstraint("TRD_ID", "DTL_NO"). SQL NULLs never
\* collide under a unique constraint.
DetailUqConflict_NoCheck(ds, row) == FALSE

DetailUqConflict(ds, row) ==
    /\ row.DTL_NO # None
    /\ \E x \in ds : x.TRD_ID = row.TRD_ID /\ x.DTL_NO = row.DTL_NO

\* trade_details.DTL_NO is Mapped[int]: NOT NULL in a table create_all made.
DetailNullViolation(row) == row.DTL_NO = None

\* trade_details.TRD_ID: ForeignKey("trades.TRD_ID"); enforced by MySQL
\* (InnoDB), not by SQLite unless PRAGMA foreign_keys is set (db.py sets none).
DetailFkViolation(ts, row, fk) ==
    fk /\ ~ \E t \in ts : t.TRD_ID = row.TRD_ID

\* Whether the INSERT of `row` into trade_details raises IntegrityError.
DetailViolates(ts, ds, row, fk) ==
    \/ DetailPkConflict(ds, row)
    \/ DetailUqConflict(ds, row)
    \/ DetailNullViolation(row)
    \/ DetailFkViolation(ts, row, fk)

FkEnforced == backend = "mysql"

\* ------------------------------------------------------------------ schema
\* models.py 15, 32, 46: the three tables, in the order the tools take them.
TableNames == <<"products", "trades", "trade_details">>

\* A column as PRAGMA table_info shows it: declared type and NOT NULL flag.
Column(t, n, ty, nn) == [table |-> t, name |-> n, type |-> ty, notnull |-> nn]

\* models.py 17-20, 34-40, 48-57: the columns create_all emits for a table
\* (String -> VARCHAR; a Mapped[...] that is not Optional -> NOT NULL).
ModelColumns(t) ==
    IF t = "products" THEN
        {Column(t, "PRD_ID", "INTEGER", TRUE), Column(t, "CODE", "VARCHAR", TRUE),
         Column(t, "NAME", "VARCHAR", TRUE), Column(t, "PRICE", "INTEGER", TRUE)}
    ELSE IF t = "trades" THEN
        {Column(t, "TRD_ID", "INTEGER", TRUE), Column(t, "DATETIME", "DATETIME", TRUE),
         Column(t, "EMP_CD", "VARCHAR", FALSE), Column(t, "STORE_CD", "VARCHAR", FALSE),
         Column(t, "POS_NO", "VARCHAR", FALSE),
         Column(t, "TTL_AMT_EX_TAX", "INTEGER", TRUE),
         Column(t, "TOTAL_AMT", "INTEGER", TRUE)}
    ELSE
        {Column(t, "DTL_ID", "INTEGER", TRUE), Column(t, "TRD_ID", "INTEGER", TRUE),
         Column(t, "DTL_NO", "INTEGER", TRUE), Column(t, "PRD_ID", "INTEGER", FALSE),
         Column(t, "PRD_CODE", "VARCHAR", TRUE), Column(t, "PRD_NAME", "VARCHAR", TRUE),
         Column(t, "PRD_PRICE", "INTEGER", TRUE), Column(t, "TAX_CD", "VARCHAR", FALSE),
         Column(t, "QTY", "INTEGER", TRUE)}

\* A unique index as PRAGMA index_list / index_info show it.
UniqueIndex(t, n, cols) == [table |-> t, name |-> n, cols |-> cols]

\* models.py 18 and 61: the unique indexes create_all emits for a table.
ModelIndexes(t) ==
    IF t = "products" THEN {UniqueIndex(t, "ix_products_CODE", <<"CODE">>)}
    ELSE IF t = "trade_details"
        THEN {UniqueIndex(t, "uq_trade_detail_per_trade", <<"TRD_ID", "DTL_NO">>)}
    ELSE {}

Schema(ts, cs, is) == [tables |-> ts, columns |-> cs, indexes |-> is]
NoSchema == Schema({}, {}, {})

\* CREATE TABLE of table t as models.py declares it.
CreateTable(S, t) ==
    Schema(S.tables \cup {t}, S.columns \cup ModelColumns(t),
           S.indexes \cup ModelIndexes(t))

\* Base.metadata.create_all: each table that is missing is created; a table
\* that exists is left as it is.
RECURSIVE CreateMissing(_, _)
CreateMissing(S, names) ==
    IF names = <<>> THEN S
    ELSE CreateMissing(IF Head(names) \in S.tables THEN S
                       ELSE CreateTable(S, Head(names)),
                       Tail(names))

create_all(S) == CreateMissing(S, TableNames)

FullSchema == create_all(NoSchema)

\* --------------------------------------------------------- product lookup
\* db.query(Product).filter(Product.code == code).first()
ProductsByCode(code) == {p \in products : p.CODE = code}
Found(code) == ProductsByCode(code) # {}
FirstProduct(code) ==
    CHOOSE p \in ProductsByCode(code) :
        \A q \in ProductsByCode(code) : p.PRD_ID <= q.PRD_ID

\* ------------------------------------------------------------ requests
\* A cart item as the caller sent it.
Item(code, qty, price) ==
    [product_code |-> code, quantity |-> qty, unit_price |-> price]

\* A request body, and the handler the request is routed to: "v2" is
\* routers/purchase_v2.py (mounted by main.py), "v1" is routers/purchase.py.
Payload(h, cashier, store, pos, present, items) ==
    [handler |-> h, cashier_code |-> cashier, store_code |-> store,
     pos_id |-> pos, items_present |-> present, items |-> items]

NoPayload == Payload("none", NoStr, NoStr, NoStr, FALSE, <<>>)

\* Responses: http 200 with a PurchaseResponse body, 500 with {"error": ...}
\* (JSONResponse), 422 for a body pydantic rejects.
Response(http, id, status, success, subtotal, total) ==
    [http |-> http, id |-> id, status |-> status, success |-> success,
     subtotal |-> subtotal, total |-> total]

NoResp == Response(0, 0, "", FALSE, 0, 0)
EmptyResp == Response(200, 0, "empty", FALSE, 0, 0)
ErrorResp == Response(500, 0, "error", FALSE, 0, 0)
InvalidResp == Response(422, 0, "invalid", FALSE, 0, 0)
AcceptedResp_FirstId(id, subtotal, total) ==
    Response(200, 1, "accepted", TRUE, subtotal, total)

AcceptedResp(id, subtotal, total) ==
    Response(200, id, "accepted", TRUE, subtotal, total)

NoTxn == [trade |-> <<>>, details |-> <<>>]

\* ------------------------------------------------------------- the builder
\* purchase_v2.py 54-58: the code is trimmed, the quantity defaults to 0,
\* the price is the override, else the catalog price, else 0.
CodeV2(it) == Strip(OrEmpty(it.product_code))
QtyV2(it) == IF it.quantity = None THEN 0 ELSE it.quantity
PriceOf(code, unit_price) ==
    IF unit_price # None THEN unit_price
    ELSE IF Found(code) THEN FirstProduct(code).PRICE ELSE 0

\* One detail draft (no DTL_ID and no TRD_ID yet).
Draft(idx, code, price, qty) ==
    TradeDetail(None, None, idx,
                IF Found(code) THEN FirstProduct(code).PRD_ID ELSE None,
                code,
                IF Found(code) THEN FirstProduct(code).NAME ELSE code,
                price, qty)

BuildDetailV2_NoLineNo(it, idx) ==
    Draft(1, CodeV2(it), PriceOf(CodeV2(it), it.unit_price), QtyV2(it))

BuildDetailV2_CatalogFirst(it, idx) ==
    Draft(idx, CodeV2(it),
          IF Found(CodeV2(it)) THEN FirstProduct(CodeV2(it)).PRICE
          ELSE IF it.unit_price # None THEN it.unit_price ELSE 0,
          QtyV2(it))

\* purchase_v2.py 53-70, the body of the loop for the idx-th item.
BuildDetailV2(it, idx) ==
    Draft(idx, CodeV2(it), PriceOf(CodeV2(it), it.unit_price), QtyV2(it))

\* purchase.py 48-62, the body of the loop (the item passed validation).
BuildDetailV1(it, idx) ==
    Draft(idx, it.product_code, PriceOf(it.product_code, it.unit_price),
          it.quantity)

BuildDetail(h, it, idx) ==
    IF h = "v2" THEN BuildDetailV2(it, idx) ELSE BuildDetailV1(it, idx)

\* The loop: enumerate(items, start=1).
BuildDetails(h, items) ==
    [i \in 1..Len(items) |-> BuildDetail(h, items[i], i)]

\* subtotal += price * qty, over the loop.
Subtotal(details) ==
    SumSeq([i \in 1..Len(details) |-> details[i].PRD_PRICE * details[i].QTY])

Tax_Ceil(subtotal) == (subtotal + 9) \div 10

\* tax = subtotal // 10 (Python floor division).
Tax(subtotal) == subtotal \div 10

Total(subtotal) == subtotal + Tax(subtotal)

\* purchase_v2.py 75-77 and purchase.py 68-71: the header defaults.
EmpCd(p) == OrDefault(Strip(OrEmpty(p.cashier_code)), s9999999999)
StoreCd(p) == OrDefault(Strip(OrEmpty(p.store_code)), s30)
PosNo(p) ==
    IF p.handler = "v2" THEN OrDefault(Strip(OrEmpty(p.pos_id)), s90) ELSE s90

\* `payload.get("items") or []`
ItemsOf(p) == IF p.items_present THEN p.items ELSE <<>>

\* purchase.py 16-26: what pydantic accepts (PurchaseItem, PurchaseRequest).
ValidItem(it) ==
    /\ it.product_code # NoStr /\ Len(it.product_code) >= 1
    /\ it.quantity # None /\ it.quantity > 0
    /\ (it.unit_price = None \/ it.unit_price >= 0)

ValidV1(p) == \A i \in 1..Len(ItemsOf(p)) : ValidItem(ItemsOf(p)[i])

\* ---------------------------------------------------------- the session
\* db.flush() of the new Trade: the id the engine generates. MySQL hands out
\* its AUTO_INCREMENT counter, which a rollback does not return; SQLite
\* (INTEGER PRIMARY KEY without AUTOINCREMENT) hands out max(rowid) + 1.
NewTradeId ==
    IF backend = "mysql" THEN trdAutoInc
    ELSE MaxOr0({t.TRD_ID : t \in trades}) + 1

\* SQLite has one writer at a time: a second session's INSERT waits for the
\* lock (and raises "database is locked" when it does not get it).
CanWrite(r) == backend = "mysql" \/ \A q \in Reqs \ {r} : txn[q].trade = <<>>

\* purchase_v2.py 89-91 and the flush inside commit(): each detail gets the
\* trade id and a generated DTL_ID.
PersistedDetails(trd, details) ==
    LET base == MaxOr0({d.DTL_ID : d \in trade_details})
    IN  {[details[i] EXCEPT !.DTL_ID = base + i, !.TRD_ID = trd] :
            i \in 1..Len(details)}

\* Whether the flush of the details raises IntegrityError: a row collides
\* with a committed row, or two rows of the flush collide with each other.
FlushViolates(trd, details) ==
    LET rows == PersistedDetails(trd.TRD_ID, details)
    IN  \/ \E d \in rows :
              DetailViolates(trades \cup {trd}, trade_details, d, FkEnforced)
        \/ \E d, e \in rows :
              d # e /\ d.TRD_ID = e.TRD_ID /\ d.DTL_NO = e.DTL_NO

\* ------------------------------------------------------------- actions
\* FastAPI routes a request body to a handler.
Receive(r, P) ==
    /\ pc[r] = "idle"
    /\ \E p \in P : payload' = [payload EXCEPT ![r] = p]
    /\ pc' = [pc EXCEPT ![r] = "recv"]
    /\ UNCHANGED <<backend, schema, storeVars, trdAutoInc, txn, resp, src, tool, runs>>

Finish(r, response) ==
    /\ pc' = [pc EXCEPT ![r] = "done"]
    /\ resp' = [resp EXCEPT ![r] = response]
    /\ txn' = [txn EXCEPT ![r] = NoTxn]

IsEmptyCart_Never(items) == FALSE

\* `if not items` (purchase_v2.py 48, purchase.py 42).
IsEmptyCart(items) == items = <<>>

\* purchase_v2.py 46-87: the empty check, the build loop, db.add(trade) and
\* db.flush(); an exception (the flush failing) reaches the outer handler,
\* which answers 500, and the session closes without a commit.
create_purchase(r) ==
    /\ pc[r] = "recv" /\ payload[r].handler = "v2"
    /\ LET p == payload[r]
           items == ItemsOf(p)
           details == BuildDetails("v2", items)
           subtotal == Subtotal(details)
           id == NewTradeId
       IN  \/ /\ IsEmptyCart(items)
              /\ Finish(r, EmptyResp)
              /\ UNCHANGED trdAutoInc
           \/ /\ ~ IsEmptyCart(items)
              /\ CanWrite(r)
              /\ pc' = [pc EXCEPT ![r] = "flushed"]
              /\ txn' = [txn EXCEPT ![r] =
                           [trade |-> <<Trade(id, EmpCd(p), StoreCd(p), PosNo(p),
                                              subtotal, Total(subtotal))>>,
                            details |-> details]]
              /\ trdAutoInc' = IF backend = "mysql" THEN id + 1 ELSE trdAutoInc
              /\ UNCHANGED resp
           \/ /\ ~ IsEmptyCart(items)
              /\ Finish(r, ErrorResp)
              /\ UNCHANGED trdAutoInc
    /\ UNCHANGED <<backend, schema, storeVars, payload, src, tool, runs>>

\* A purchase committing while a toolkit run is under way is a write the
\* run did not make.
NoteForeignWrite ==
    tool' = IF tool.cmd = "none" THEN tool ELSE [tool EXCEPT !.foreign = TRUE]

Rollback_KeepsHeader(r) ==
    /\ trades' = trades \cup {txn[r].trade[1]}
    /\ UNCHANGED trade_details

\* The session rolls the transaction back when commit() raises (and close()
\* discards whatever is open): the flushed header goes with the details.
Rollback(r) == UNCHANGED <<trades, trade_details>>

\* purchase_v2.py 96-103: JSONResponse({"error": ...}, status_code=500).
CommitFailed(r) == ErrorResp

\* purchase_v2.py 89-105: the details get the trade id, db.commit() flushes
\* them and commits header and details together; when commit raises (a
\* constraint violation in the flush, or the engine failing) the handler
\* answers 500.
commit(r) ==
    /\ pc[r] = "flushed" /\ payload[r].handler = "v2"
    /\ LET trd == txn[r].trade[1]
       IN  \/ /\ ~ FlushViolates(trd, txn[r].details)
              /\ trades' = trades \cup {trd}
              /\ trade_details' =
                     trade_details \cup PersistedDetails(trd.TRD_ID, txn[r].details)
              /\ Finish(r, AcceptedResp(trd.TRD_ID, trd.TTL_AMT_EX_TAX, trd.TOTAL_AMT))
              /\ NoteForeignWrite
           \/ /\ Rollback(r)
              /\ Finish(r, CommitFailed(r))
              /\ UNCHANGED tool
    /\ UNCHANGED <<backend, schema, products, trdAutoInc, payload, src, runs>>

\* purchase.py 37-81: pydantic validates the body (422 otherwise), then the
\* empty check, the build loop, db.add(trade) and db.flush(); a failing flush
\* raises out of the handler (500) and session_scope rolls back.
create_purchase_v1(r) ==
    /\ pc[r] = "recv" /\ payload[r].handler = "v1"
    /\ LET p == payload[r]
           items == ItemsOf(p)
           details == BuildDetails("v1", items)
           subtotal == Subtotal(details)
           id == NewTradeId
       IN  \/ /\ ~ ValidV1(p)
              /\ Finish(r, InvalidResp)
              /\ UNCHANGED trdAutoInc
           \/ /\ ValidV1(p) /\ IsEmptyCart(items)
              /\ Finish(r, EmptyResp)
              /\ UNCHANGED trdAutoInc
           \/ /\ ValidV1(p) /\ ~ IsEmptyCart(items)
              /\ CanWrite(r)
              /\ pc' = [pc EXCEPT ![r] = "flushed"]
              /\ txn' = [txn EXCEPT ![r] =
                           [trade |-> <<Trade(id, EmpCd(p), StoreCd(p), PosNo(p),
                                              subtotal, Total(subtotal))>>,
                            details |-> details]]
              /\ trdAutoInc' = IF backend = "mysql" THEN id + 1 ELSE trdAutoInc
              /\ UNCHANGED resp
           \/ /\ ValidV1(p) /\ ~ IsEmptyCart(items)
              /\ Finish(r, ErrorResp)
              /\ UNCHANGED trdAutoInc
    /\ UNCHANGED <<backend, schema, storeVars, payload, src, tool, runs>>

\* purchase.py 82-86 and db.py 83-97: the details get the trade id and are
\* added to the session, the handler returns "accepted"; nothing commits
\* (neither the handler nor session_scope), and close() discards the open
\* transaction, the flushed header included.
return_v1(r) ==
    /\ pc[r] = "flushed" /\ payload[r].handler = "v1"
    /\ LET trd == txn[r].trade[1]
       IN  Finish(r, AcceptedResp(trd.TRD_ID, trd.TTL_AMT_EX_TAX, trd.TOTAL_AMT))
    /\ UNCHANGED <<backend, schema, storeVars, trdAutoInc, payload, src, tool, runs>>

\* ------------------------------------------------------- catalog handlers
\* An item of a bulk upsert body as the caller sent it.
CatalogItem(code, name, price) == [code |-> code, name |-> name, price |-> price]

\* The body of the catalog handlers' answers: products.py 59 and 83.
CatalogResp(ins, upd, count) ==
    [http |-> 200, status |-> "catalog", inserted |-> ins, updated |-> upd,
     count |-> count]

\* products.py 70-72: the code is trimmed, an item without a code is passed
\* over.
UpsertCode(it) == Strip(OrEmpty(it.code))

\* products.py 68-82: the loop of bulk_upsert. The session is made with
\* autoflush=False (db.py 80), so each query sees the committed rows: an
\* item whose code is there counts as updated, any other as inserted.
RECURSIVE UpsertCounts(_, _, _)
UpsertCounts(items, ins, upd) ==
    IF items = <<>> THEN [inserted |-> ins, updated |-> upd]
    ELSE IF UpsertCode(Head(items)) = <<>> THEN UpsertCounts(Tail(items), ins, upd)
    ELSE IF Found(UpsertCode(Head(items)))
        THEN UpsertCounts(Tail(items), ins, upd + 1)
    ELSE UpsertCounts(Tail(items), ins + 1, upd)

\* products.py 62-83: the products are changed and added in the session,
\* the counts are returned, and the handler ends without db.commit();
\* get_db (db.py 83-97) closes the session, which discards its changes.
bulk_upsert(r) ==
    /\ pc[r] = "recv" /\ payload[r].handler = "bulk"
    /\ LET c == UpsertCounts(ItemsOf(payload[r]), 0, 0)
       IN  Finish(r, CatalogResp(c.inserted, c.updated, Cardinality(products)))
    /\ UNCHANGED <<backend, schema, storeVars, trdAutoInc, payload, src, tool, runs>>

\* products.py 47-59: two sample products are added to the session when
\* the table is empty; the count is that of the committed rows, and the
\* handler ends without db.commit().
dev_seed(r) ==
    /\ pc[r] = "recv" /\ payload[r].handler = "seed"
    /\ Finish(r, CatalogResp(0, 0, Cardinality(products)))
    /\ UNCHANGED <<backend, schema, storeVars, trdAutoInc, payload, src, tool, runs>>

\* ------------------------------------------------------- migration toolkit
\* A database as the toolkit sees it: the three tables of models.py.
Db(ps, ts, ds) == [products |-> ps, trades |-> ts, trade_details |-> ds]
EmptyDb == Db({}, {}, {})

\* The destination is the store the application writes to.
Dst == Db(products, trades, trade_details)

Plan_DetailsFirst == <<"trade_details", "products", "trades">>

\* migrate_sqlite_to_mysql.py 151-155: the plan, in this order.
Plan == <<"products", "trades", "trade_details">>

\* The key select(table) returns the rows by (SQLite scans a table in
\* primary-key order).
Pk(kind, row) ==
    IF kind = "products" THEN row.PRD_ID
    ELSE IF kind = "trades" THEN row.TRD_ID ELSE row.DTL_ID

\* migrate_sqlite_to_mysql.py 85-89: the rows of a table, as a list.
RECURSIVE _fetch_all_as_dicts(_, _)
_fetch_all_as_dicts(S, kind) ==
    IF S = {} THEN <<>>
    ELSE LET m == CHOOSE x \in S : \A y \in S : Pk(kind, x) <= Pk(kind, y)
         IN  <<m>> \o _fetch_all_as_dicts(S \ {m}, kind)

\* migrate_sqlite_to_mysql.py 64-72: full batches of `size`, then the rest.
RECURSIVE _chunked(_, _)
_chunked(rows, size) ==
    IF rows = <<>> THEN <<>>
    ELSE IF Len(rows) <= size THEN <<rows>>
    ELSE <<SubSeq(rows, 1, size)>>
             \o _chunked(SubSeq(rows, size + 1, Len(rows)), size)

RowViolates_NoPk(D, kind, row) ==
    IF kind = "products"
        THEN \E x \in D.products : x.CODE = row.CODE
    ELSE IF kind = "trades" THEN FALSE
    ELSE \/ DetailUqConflict(D.trade_details, row)
         \/ DetailNullViolation(row)
         \/ DetailFkViolation(D.trades, row, TRUE)

\* Whether INSERT of `row` into table `kind` of the MySQL destination D
\* raises IntegrityError (duplicate key, NULL in a NOT NULL column, missing
\* parent row).
RowViolates(D, kind, row) ==
    IF kind = "products" THEN ProductConflict(D.products, row)
    ELSE IF kind = "trades" THEN TradeConflict(D.trades, row)
    ELSE DetailViolates(D.trades, D.trade_details, row, TRUE)

InsertRow_Refresh(D, kind, row) ==
    IF kind # "products" THEN [D EXCEPT ![kind] = @ \cup {row}]
    ELSE [D EXCEPT
            !.products = @ \cup {row},
            !.trade_details =
                {IF d.PRD_CODE = row.CODE
                     THEN [d EXCEPT !.PRD_ID = row.PRD_ID, !.PRD_NAME = row.NAME,
                                    !.PRD_PRICE = row.PRICE]
                 ELSE d : d \in @}]

\* INSERT of one row: the table gains the row, nothing else changes.
InsertRow(D, kind, row) == [D EXCEPT ![kind] = @ \cup {row}]

\* dest_conn.execute(insert(table), batch): one multi-row INSERT (the driver
\* folds executemany of an INSERT ... VALUES into one statement); InnoDB
\* undoes a failed statement as a whole and keeps the transaction open.
RECURSIVE InsertBatch(_, _, _, _)
InsertBatch(D0, D, kind, rows) ==
    IF rows = <<>> THEN [ok |-> TRUE, db |-> D]
    ELSE IF RowViolates(D, kind, Head(rows)) THEN [ok |-> FALSE, db |-> D0]
    ELSE InsertBatch(D0, InsertRow(D, kind, Head(rows)), kind, Tail(rows))

\* A result of copying: the destination, and the two counters.
Copied(D, ins, sk) == [db |-> D, inserted |-> ins, skipped |-> sk]

RECURSIVE InsertEach_CountAll(_, _, _)
InsertEach_CountAll(C, kind, rows) ==
    IF rows = <<>> THEN C
    ELSE IF RowViolates(C.db, kind, Head(rows))
        THEN InsertEach_CountAll(Copied(C.db, C.inserted + 1, C.skipped), kind, Tail(rows))
    ELSE InsertEach_CountAll(
             Copied(InsertRow(C.db, kind, Head(rows)), C.inserted + 1, C.skipped),
             kind, Tail(rows))

RECURSIVE InsertEach_Overwrite(_, _, _)
InsertEach_Overwrite(C, kind, rows) ==
    IF rows = <<>> THEN C
    ELSE IF RowViolates(C.db, kind, Head(rows))
        THEN InsertEach_Overwrite(
                 Copied([C.db EXCEPT ![kind] =
                            {x \in @ : Pk(kind, x) # Pk(kind, Head(rows))}
                                \cup {y \in {Head(rows)} :
                                         \E x \in C.db[kind] : Pk(kind, x) = Pk(kind, y)}],
                        C.inserted, C.skipped + 1),
                 kind, Tail(rows))
    ELSE InsertEach_Overwrite(
             Copied(InsertRow(C.db, kind, Head(rows)), C.inserted + 1, C.skipped),
             kind, Tail(rows))

\* migrate_sqlite_to_mysql.py 110-115: the batch again, row by row.
RECURSIVE InsertEach(_, _, _)
InsertEach(C, kind, rows) ==
    IF rows = <<>> THEN C
    ELSE IF RowViolates(C.db, kind, Head(rows))
        THEN InsertEach(Copied(C.db, C.inserted, C.skipped + 1), kind, Tail(rows))
    ELSE InsertEach(
             Copied(InsertRow(C.db, kind, Head(rows)), C.inserted + 1, C.skipped),
             kind, Tail(rows))

\* migrate_sqlite_to_mysql.py 104-116: the loop over the batches.
RECURSIVE CopyBatches(_, _, _)
CopyBatches(C, kind, batches) ==
    IF batches = <<>> THEN C
    ELSE LET b == Head(batches)
             r == InsertBatch(C.db, C.db, kind, b)
         IN  IF r.ok
                 THEN CopyBatches(Copied(r.db, C.inserted + Len(b), C.skipped),
                                  kind, Tail(batches))
             ELSE CopyBatches(InsertEach(C, kind, b), kind, Tail(batches))

\* _table_row_count
_table_row_count(D, kind) == Cardinality(D[kind])

\* migrate_sqlite_to_mysql.py 92-117 in apply mode, one transaction.
_copy_table(S, D, kind) ==
    CopyBatches(Copied(D, 0, 0), kind,
                _chunked(_fetch_all_as_dicts(S[kind], kind), BatchSize))

\* One line of the report: the table, its source count and the counters.
ReportLine(kind, n, ins, sk) ==
    [table |-> kind, src |-> n, inserted |-> ins, skipped |-> sk]

\* The toolkit at rest.
NoTool ==
    [cmd |-> "none", apply |-> FALSE, step |-> 0, report |-> <<>>,
     before |-> EmptyDb, schema_before |-> NoSchema,
     added |-> {}, foreign |-> FALSE,
     queue |-> <<>>, used |-> {}, cur_trd |-> None, next_no |-> 1,
     planned |-> <<>>, crashed |-> FALSE,
     classes |-> [pk |-> {}, uq |-> {}, missing |-> {}]]

\* What is kept of a run that ended: what it reported, and the store before
\* and after it.
Ended(t, after) ==
    [cmd |-> t.cmd, apply |-> t.apply, report |-> t.report,
     before |-> t.before, after |-> after,
     schema_before |-> t.schema_before, schema_after |-> schema,
     added |-> t.added,
     foreign |-> t.foreign, planned |-> t.planned, crashed |-> t.crashed,
     classes |-> t.classes]

\* The tools' INSERTs wait for the locks of an open purchase transaction.
NoOpenTxn == \A r \in Reqs : txn[r].trade = <<>>

\* InnoDB moves AUTO_INCREMENT past an explicitly inserted id.
AutoIncAfter(ts) == Max({trdAutoInc} \cup {t.TRD_ID + 1 : t \in ts})

\* migrate_sqlite_to_mysql.py 75-76: Base.metadata.create_all(bind=engine).
_ensure_tables(S) == create_all(S)

\* migrate_sqlite_to_mysql.py 120-161: arguments, engines, _ensure_tables
\* (line 149, whatever the mode), the plan and the zeroed totals.
copy_start ==
    /\ tool.cmd = "none" /\ Len(runs) < MaxRuns
    /\ \E apply \in BOOLEAN :
          tool' = [NoTool EXCEPT !.cmd = "copy", !.apply = apply, !.step = 1,
                                 !.before = Dst, !.schema_before = schema]
    /\ schema' = _ensure_tables(schema)
    /\ UNCHANGED <<backend, storeVars, trdAutoInc, reqVars, src, runs>>

\* migrate_sqlite_to_mysql.py 162-181: one turn of the loop over the plan
\* (the count alone in a dry run, else _copy_table); the turn for the last
\* table ends the run.
copy_table ==
    /\ tool.cmd = "copy" /\ NoOpenTxn
    /\ LET kind == Plan[tool.step]
           n == _table_row_count(src, kind)
           c == IF tool.apply THEN _copy_table(src, Dst, kind) ELSE Copied(Dst, 0, 0)
           t == [tool EXCEPT
                   !.report = Append(@, ReportLine(kind, n, c.inserted, c.skipped)),
                   !.added = @ \cup {<<kind, x>> : x \in c.db[kind] \ Dst[kind]},
                   !.step = @ + 1]
       IN  /\ products' = c.db.products
           /\ trades' = c.db.trades
           /\ trade_details' = c.db.trade_details
           /\ trdAutoInc' = AutoIncAfter(c.db.trades)
           /\ IF tool.step = Len(Plan)
                 THEN /\ tool' = NoTool
                      /\ runs' = Append(runs, Ended(t, c.db))
                 ELSE /\ tool' = t
                      /\ UNCHANGED runs
    /\ UNCHANGED <<backend, schema, reqVars, src>>

\* fix_missing_trade_details.py 29-40: the source details with a NULL
\* DTL_NO, ordered by TRD_ID then DTL_ID (the groups of the dict, in order).
RECURSIVE OrderByTrdDtl(_)
OrderByTrdDtl(S) ==
    IF S = {} THEN <<>>
    ELSE LET m == CHOOSE x \in S : \A y \in S :
                      \/ x.TRD_ID < y.TRD_ID
                      \/ (x.TRD_ID = y.TRD_ID /\ x.DTL_ID <= y.DTL_ID)
         IN  <<m>> \o OrderByTrdDtl(S \ {m})

_fetch_src_nulls(S) ==
    OrderByTrdDtl({d \in S.trade_details : d.DTL_NO = None})

\* fix_missing_trade_details.py 43-53: the (TRD_ID, DTL_NO) pairs of the
\* destination, NULL line numbers left out.
_fetch_used_line_nos(D) ==
    {<<d.TRD_ID, d.DTL_NO>> : d \in {x \in D.trade_details : x.DTL_NO # None}}

SkipUsed_None(used_set, n) == n

\* `while next_no in used_set: next_no += 1`
RECURSIVE SkipUsed(_, _)
SkipUsed(used_set, n) == IF n \in used_set THEN SkipUsed(used_set, n + 1) ELSE n

UsedSet(used, trd) == {u[2] : u \in {x \in used : x[1] = trd}}

\* fix_missing_trade_details.py 56-77: arguments, engines, and the two
\* reads; a source without NULL line numbers ends the run at once.
repair_start ==
    /\ tool.cmd = "none" /\ Len(runs) < MaxRuns
    /\ \E apply \in BOOLEAN :
          LET t == [NoTool EXCEPT !.cmd = "repair", !.apply = apply,
                                  !.before = Dst, !.schema_before = schema,
                                  !.queue = _fetch_src_nulls(src),
                                  !.used = _fetch_used_line_nos(Dst)]
          IN  IF t.queue = <<>>
                  THEN /\ tool' = NoTool
                       /\ runs' = Append(runs, Ended(t, Dst))
              ELSE /\ tool' = t
                   /\ UNCHANGED runs
    /\ UNCHANGED <<backend, schema, storeVars, trdAutoInc, reqVars, src>>

\* fix_missing_trade_details.py 80-98: one turn of the inner loop. The
\* number is the next one not in used_set, counting from 1 in each trade;
\* in apply mode the row is inserted in a transaction of its own, and an
\* IntegrityError is not caught: it ends the run with a traceback. The turn
\* for the last row ends the run.
repair_step ==
    /\ tool.cmd = "repair" /\ tool.queue # <<>>
    /\ tool.apply => NoOpenTxn
    /\ LET row == Head(tool.queue)
           trd == row.TRD_ID
           from == IF trd = tool.cur_trd THEN tool.next_no ELSE 1
           n == SkipUsed(UsedSet(tool.used, trd), from)
           ins == [row EXCEPT !.DTL_NO = n]
           fails == tool.apply /\ RowViolates(Dst, "trade_details", ins)
           t == [tool EXCEPT
                   !.queue = Tail(@),
                   !.used = @ \cup {<<trd, n>>},
                   !.cur_trd = trd,
                   !.next_no = n + 1,
                   !.planned = Append(@, <<row.DTL_ID, n>>),
                   !.added = IF tool.apply
                                THEN @ \cup {<<"trade_details", ins>>} ELSE @]
       IN  \/ /\ fails
              /\ tool' = NoTool
              /\ runs' = Append(runs, Ended([tool EXCEPT !.crashed = TRUE], Dst))
              /\ UNCHANGED trade_details
           \/ /\ ~ fails
              /\ trade_details' =
                     IF tool.apply THEN trade_details \cup {ins} ELSE trade_details
              /\ IF t.queue = <<>>
                    THEN /\ tool' = NoTool
                         /\ runs' = Append(runs, Ended(t, Db(products, trades, trade_details')))
                    ELSE /\ tool' = t
                         /\ UNCHANGED runs
    /\ UNCHANGED <<backend, schema, products, trades, trdAutoInc, reqVars, src>>

\* diagnose_trade_detail_conflicts.py 63: the DTL_IDs of the destination.
d_by_pk(D) == {r.DTL_ID : r \in D.trade_details}

\* diagnose_trade_detail_conflicts.py 64: its (TRD_ID, DTL_NO) pairs, a NULL
\* DTL_NO being a key like any other (a Python tuple holding None).
d_by_uq(D) == {<<r.TRD_ID, r.DTL_NO>> : r \in D.trade_details}

\* diagnose_trade_detail_conflicts.py 70-78: the class of one source row.
Classify(s, D) ==
    IF s.DTL_ID \in d_by_pk(D) THEN "pk"
    ELSE IF <<s.TRD_ID, s.DTL_NO>> \in d_by_uq(D) THEN "uq"
    ELSE "missing"

\* diagnose_trade_detail_conflicts.py 41-109: both tables are read, every
\* source row is put in a list, and the lists are printed; nothing is
\* written.
diagnose ==
    /\ tool.cmd = "none" /\ Len(runs) < MaxRuns
    /\ LET rows == src.trade_details
           t == [NoTool EXCEPT
                   !.cmd = "diagnose", !.before = Dst, !.schema_before = schema,
                   !.classes =
                       [pk |-> {r \in rows : Classify(r, Dst) = "pk"},
                        uq |-> {r \in rows : Classify(r, Dst) = "uq"},
                        missing |-> {r \in rows : Classify(r, Dst) = "missing"}]]
       IN  runs' = Append(runs, Ended(t, Dst))
    /\ UNCHANGED <<backend, schema, storeVars, trdAutoInc, reqVars, src, tool>>

\* ----------------------------------------------------------- schema doctor
\* fix_sqlite_schema.py 40-49: the SQLite type name of a model column.
_sqlite_type(ty) ==
    IF ty = "INTEGER" THEN "INTEGER"
    ELSE IF ty = "VARCHAR" THEN "TEXT"
    ELSE IF ty = "DATETIME" THEN "DATETIME"
    ELSE "TEXT"

\* models.py 17-20, 34-40, 48-57: the columns of a table, in order.
ColumnNames(t) ==
    IF t = "products" THEN <<"PRD_ID", "CODE", "NAME", "PRICE">>
    ELSE IF t = "trades"
        THEN <<"TRD_ID", "DATETIME", "EMP_CD", "STORE_CD", "POS_NO",
               "TTL_AMT_EX_TAX", "TOTAL_AMT">>
    ELSE <<"DTL_ID", "TRD_ID", "DTL_NO", "PRD_ID", "PRD_CODE", "PRD_NAME",
           "PRD_PRICE", "TAX_CD", "QTY">>

\* fix_sqlite_schema.py 52-61: ColumnSpec(name, type_sql, nullable) of a
\* model column.
expected_schema(t, n) ==
    LET c == CHOOSE x \in ModelColumns(t) : x.name = n
    IN  [name |-> n, type_sql |-> _sqlite_type(c.type), nullable |-> ~ c.notnull]

\* fix_sqlite_schema.py 64-66
table_exists(S, t) == t \in S.tables

\* fix_sqlite_schema.py 69-77: PRAGMA table_info, the columns of a table.
fetch_existing_columns(S, t) == {c \in S.columns : c.table = t}

\* One entry of the list of actions the doctor prints.
DoctorAction(op, t, n) == [op |-> op, table |-> t, column |-> n]

\* What a step of the doctor yields: the schema and the actions to print.
Doctored(S, acts) == [schema |-> S, actions |-> acts]

\* ALTER TABLE t ADD COLUMN n type: the column is added without NOT NULL.
AddColumn(S, t, n, ty) ==
    Schema(S.tables, S.columns \cup {Column(t, n, ty, FALSE)}, S.indexes)

\* fix_sqlite_schema.py 106-124: the loop over the expected columns of a
\* table that exists; `existing` was read before the loop.
RECURSIVE add_missing_columns(_, _, _, _, _)
add_missing_columns(R, t, names, existing, apply) ==
    IF names = <<>> THEN R
    ELSE LET col == expected_schema(t, Head(names))
             have == {c \in existing : c.name = col.name}
             stmt == DoctorAction("ADD COLUMN", t, col.name)
         IN  IF have = {}
                 THEN add_missing_columns(
                          IF apply
                              THEN Doctored(AddColumn(R.schema, t, col.name, col.type_sql),
                                            R.actions \o <<stmt, DoctorAction("applied", t, col.name)>>)
                          ELSE Doctored(R.schema, Append(R.actions, stmt)),
                          t, Tail(names), existing, apply)
             ELSE LET c == CHOOSE x \in have : TRUE
                      w1 == IF c.type # col.type_sql
                                THEN <<DoctorAction("WARN type", t, col.name)>> ELSE <<>>
                      w2 == IF c.notnull /\ col.nullable
                                THEN <<DoctorAction("WARN nullability", t, col.name)>> ELSE <<>>
                  IN  add_missing_columns(Doctored(R.schema, R.actions \o w1 \o w2),
                                          t, Tail(names), existing, apply)

\* fix_sqlite_schema.py 131-139: the turn of the loop for table t.
EnsureTable(S, t, apply) ==
    IF ~ table_exists(S, t)
        THEN IF apply
                 THEN Doctored(CreateTable(S, t),
                               <<DoctorAction("CREATE TABLE", t, ""),
                                 DoctorAction("applied", t, "")>>)
             ELSE Doctored(S, <<DoctorAction("CREATE TABLE", t, "")>>)
    ELSE add_missing_columns(Doctored(S, <<>>), t, ColumnNames(t),
                             fetch_existing_columns(S, t), apply)

\* fix_sqlite_schema.py 84-96: whether a unique index of trade_details is
\* on exactly (TRD_ID, DTL_NO).
IndexFound(S) ==
    \E i \in S.indexes : i.table = "trade_details" /\ i.cols = <<"TRD_ID", "DTL_NO">>

ensure_unique_index_trade_details_Eager(S, apply) ==
    IF IndexFound(S) THEN Doctored(S, <<>>)
    ELSE Doctored(Schema(S.tables, S.columns,
                         S.indexes \cup ModelIndexes("trade_details")),
                  <<DoctorAction("CREATE UNIQUE INDEX", "trade_details", "")>>)

\* fix_sqlite_schema.py 80-103: the statement is planned when no such
\* index is found, and executed in apply mode.
ensure_unique_index_trade_details(S, apply) ==
    IF IndexFound(S) THEN Doctored(S, <<>>)
    ELSE IF apply
        THEN Doctored(Schema(S.tables, S.columns,
                             S.indexes \cup ModelIndexes("trade_details")),
                      <<DoctorAction("CREATE UNIQUE INDEX", "trade_details", ""),
                        DoctorAction("applied", "trade_details", "")>>)
    ELSE Doctored(S, <<DoctorAction("CREATE UNIQUE INDEX", "trade_details", "")>>)

\* CREATE UNIQUE INDEX is refused when the rows of the table hold the same
\* (TRD_ID, DTL_NO) twice.
HasDuplicateLineNo(ds) ==
    \E d, x \in ds :
        d # x /\ d.TRD_ID = x.TRD_ID /\ d.DTL_NO = x.DTL_NO /\ d.DTL_NO # None

\* fix_sqlite_schema.py 145-153: arguments and the SQLite-only check; on
\* another engine the tool prints that it supports SQLite only and ends.
doctor_start ==
    /\ tool.cmd = "none" /\ Len(runs) < MaxRuns
    /\ \E apply \in BOOLEAN :
          LET t == [NoTool EXCEPT !.cmd = "doctor", !.apply = apply, !.step = 1,
                                  !.before = Dst, !.schema_before = schema]
          IN  IF backend # "sqlite"
                  THEN /\ tool' = NoTool
                       /\ runs' = Append(runs, Ended([t EXCEPT !.crashed = TRUE], Dst))
              ELSE /\ tool' = t
                   /\ UNCHANGED runs
    /\ UNCHANGED <<backend, schema, storeVars, trdAutoInc, reqVars, src>>

\* fix_sqlite_schema.py 127-139: one turn of the loop over the tables.
doctor_table ==
    /\ tool.cmd = "doctor" /\ tool.step <= Len(TableNames)
    /\ tool.apply => NoOpenTxn
    /\ LET r == EnsureTable(schema, TableNames[tool.step], tool.apply)
       IN  /\ schema' = r.schema
           /\ tool' = [tool EXCEPT !.report = @ \o r.actions, !.step = @ + 1]
    /\ UNCHANGED <<backend, storeVars, trdAutoInc, reqVars, src, runs>>

\* fix_sqlite_schema.py 140-142 and 155-162: the unique index, then the
\* actions are printed and the run ends. In apply mode a refused CREATE
\* UNIQUE INDEX raises out of main.
doctor_index ==
    /\ tool.cmd = "doctor" /\ tool.step = Len(TableNames) + 1
    /\ tool.apply => NoOpenTxn
    /\ LET r == ensure_unique_index_trade_details(schema, tool.apply)
           fails == tool.apply /\ ~ IndexFound(schema) /\ HasDuplicateLineNo(trade_details)
       IN  IF fails
               THEN /\ UNCHANGED schema
                    /\ runs' = Append(runs, Ended([tool EXCEPT !.crashed = TRUE], Dst))
           ELSE /\ schema' = r.schema
                /\ runs' = Append(runs, [Ended([tool EXCEPT !.report = @ \o r.actions], Dst)
                                            EXCEPT !.schema_after = r.schema])
    /\ tool' = NoTool
    /\ UNCHANGED <<backend, storeVars, trdAutoInc, reqVars, src>>

\* ----------------------------------------------------------- input spaces
nameA == <<"a">>
nameB == <<"b">>

\* The catalogs the purchase engine is run against.
CatalogA == {Product(1, sA, nameA, 5)}
CatalogAB == {Product(1, sA, nameA, 5), Product(2, sB, nameB, 12)}

RECURSIVE SeqsUpTo(_, _)
SeqsUpTo(S, n) ==
    IF n = 0 THEN {<<>>}
    ELSE LET shorter == SeqsUpTo(S, n - 1)
         IN  shorter \cup {Append(c, x) : c \in {y \in shorter : Len(y) = n - 1}, x \in S}

\* The builder's input space: every cart of at most MaxItems items.
WideItems ==
    {Item(c, q, u) : c \in {sA, sSpA, sB}, q \in {0, 1, 3}, u \in {None, 0, 7}}

WidePayloads ==
    {Payload(h, NoStr, NoStr, NoStr, TRUE, c) :
        h \in {"v2", "v1"}, c \in SeqsUpTo(WideItems, MaxItems)}
    \cup {Payload(h, NoStr, NoStr, NoStr, FALSE, <<>>) : h \in {"v2", "v1"}}

\* The carts of concurrent requests.
ConcCarts ==
    {<<>>, <<Item(sA, 1, None)>>, <<Item(sA, 3, None), Item(sB, 0, 7)>>}

ConcPayloads ==
    {Payload(h, NoStr, NoStr, NoStr, TRUE, c) : h \in {"v2", "v1"}, c \in ConcCarts}

\* Live traffic while the toolkit runs.
LivePayloads ==
    {Payload("v2", NoStr, NoStr, NoStr, TRUE, c) :
        c \in {<<>>, <<Item(sA, 1, None)>>}}

\* The migration source: an older SQLite file, its trade_details possibly
\* with NULL line numbers and rows whose trade is gone (SQLite enforces no
\* foreign key).
SrcProducts == {Product(1, sA, nameA, 5), Product(2, sB, nameB, 12)}
SrcTrade(id) == Trade(id, s9999999999, s30, s90, 5, 5)
SrcDetail(id, trd, no) == TradeDetail(id, trd, no, 1, sA, nameA, 5, 1)
SrcDetails ==
    {SrcDetail(1, 1, 1), SrcDetail(2, 1, 2), SrcDetail(3, 1, None),
     SrcDetail(4, 1, None), SrcDetail(5, 2, 1)}

Sources ==
    {Db(SrcProducts, ts, ds) :
        ts \in {{SrcTrade(1)}, {SrcTrade(1), SrcTrade(2)}},
        ds \in SUBSET SrcDetails}

\* The destination before the first run: empty, or holding rows of its own
\* that collide with source rows by primary key or by unique key.
Destinations ==
    {EmptyDb,
     Db({Product(1, sA, nameA, 9)}, {Trade(1, s12, s30, s90, 9, 9)},
        {TradeDetail(1, 1, 2, 1, sA, nameA, 9, 1)}),
     Db({Product(3, sB, nameB, 12)}, {}, {})}

\* Sales and catalog requests, for a store whose catalog is then added to
\* by a full copy.
nameZ == <<"z">>

CatalogTraffic ==
    {Payload("v2", NoStr, NoStr, NoStr, TRUE, c) :
        c \in {<<Item(sA, 3, None), Item(sB, 1, None)>>}}
    \cup {Payload("bulk", NoStr, NoStr, NoStr, TRUE, c) :
            c \in {<<CatalogItem(sSpA, nameZ, 9), CatalogItem(sB, nameB, 12),
                     CatalogItem(sBlank, nameZ, 1)>>}}
    \cup {Payload("seed", NoStr, NoStr, NoStr, FALSE, <<>>)}

\* The gap repair's inputs: a source whose trades 1 and 2 hold details
\* without a line number (their DTL_IDs interleaved), and a MySQL
\* destination holding numbered details of these trades, a row whose
\* DTL_ID one of the source rows has too, and possibly not trade 2.
RepairNulls ==
    {SrcDetail(2, 1, None), SrcDetail(3, 2, None), SrcDetail(4, 1, None),
     SrcDetail(5, 2, None)}

RepairSources ==
    {Db(SrcProducts, {SrcTrade(1), SrcTrade(2)}, {SrcDetail(1, 1, 1)} \cup N) :
        N \in SUBSET RepairNulls}

RepairDestinations ==
    {Db(SrcProducts, {SrcTrade(1), SrcTrade(2)}, ds) :
        ds \in SUBSET {SrcDetail(1, 1, 1), SrcDetail(10, 1, 2),
                       SrcDetail(11, 2, 1), SrcDetail(4, 2, 3)}}
    \cup {Db(SrcProducts, {SrcTrade(1)}, ds) :
            ds \in SUBSET {SrcDetail(1, 1, 1), SrcDetail(10, 1, 3)}}

\* Sales whose callers name a cashier, a store and a POS terminal, leave
\* them out, or send blanks.
sSp12 == <<" ", "1", "2">>
s7 == <<"7">>

HeaderFields ==
    {<<NoStr, NoStr, NoStr>>, <<sBlank, sEmpty, sBlank>>,
     <<s12Sp, s7, sSp12>>, <<s7, NoStr, s12>>}

HeaderPayloads ==
    {Payload(h, f[1], f[2], f[3], TRUE, <<Item(sA, 1, None)>>) :
        h \in {"v2", "v1"}, f \in HeaderFields}

\* The schemas the doctor is run on: what create_all made, with tables
\* missing, and a trade_details table of an older layout, without DTL_NO
\* or without the unique index.
DropTable(S, t) ==
    Schema(S.tables \ {t}, {c \in S.columns : c.table # t},
           {i \in S.indexes : i.table # t})

DropColumn(S, t, n) ==
    Schema(S.tables, {c \in S.columns : ~ (c.table = t /\ c.name = n)}, S.indexes)

DropIndexes(S, t) ==
    Schema(S.tables, S.columns, {i \in S.indexes : i.table # t})

OlderLayout(S, noLineNo, noIndex) ==
    LET S1 == IF noLineNo THEN DropColumn(S, "trade_details", "DTL_NO") ELSE S
    IN  IF noIndex THEN DropIndexes(S1, "trade_details") ELSE S1

DoctorSchemas ==
    {OlderLayout(S, v[1], v[2]) :
        S \in {FullSchema, DropTable(FullSchema, "trades"),
               DropTable(FullSchema, "trade_details"), NoSchema},
        v \in {<<FALSE, FALSE>>, <<FALSE, TRUE>>, <<TRUE, TRUE>>}}

\* The details of a store whose trade_details has no unique index: none,
\* or two rows of trade 1 under the same line number.
DoctorDetails == {{}, {SrcDetail(1, 1, 1), SrcDetail(2, 1, 1)}}

\* ------------------------------------------------------- specifications
InitRequests ==
    /\ pc = [r \in Reqs |-> "idle"]
    /\ payload = [r \in Reqs |-> NoPayload]
    /\ txn = [r \in Reqs |-> NoTxn]
    /\ resp = [r \in Reqs |-> NoResp]

\* The application after start-up (main.py on_startup: create_all) on an
\* empty database holding a catalog; no toolkit in use.
Init ==
    /\ backend \in {"sqlite", "mysql"}
    /\ schema = FullSchema
    /\ products \in {CatalogA, CatalogAB}
    /\ trades = {}
    /\ trade_details = {}
    /\ trdAutoInc = 1
    /\ InitRequests
    /\ src = EmptyDb
    /\ tool = NoTool
    /\ runs = <<>>

\* Concurrent purchase requests.
Next ==
    \E r \in Reqs :
        \/ Receive(r, ConcPayloads)
        \/ create_purchase(r)
        \/ commit(r)
        \/ create_purchase_v1(r)
        \/ return_v1(r)

Spec == Init /\ [][Next]_vars

\* One request over the builder's whole input space.
NextBuilder ==
    \/ Receive(1, WidePayloads)
    \/ create_purchase(1)
    \/ commit(1)
    \/ create_purchase_v1(1)
    \/ return_v1(1)

SpecBuilder == Init /\ [][NextBuilder]_vars

\* The toolkit against a MySQL destination (migrate_sqlite_to_mysql.py
\* 143-145 refuses any other), with live traffic.
InitToolkit ==
    /\ backend = "mysql"
    /\ schema = FullSchema
    /\ src \in Sources
    /\ \E D \in Destinations :
          /\ products = D.products
          /\ trades = D.trades
          /\ trade_details = D.trade_details
          /\ trdAutoInc = MaxOr0({t.TRD_ID : t \in D.trades}) + 1
    /\ InitRequests
    /\ tool = NoTool
    /\ runs = <<>>

NextToolkit ==
    \/ copy_start
    \/ copy_table
    \/ repair_start
    \/ repair_step
    \/ Receive(1, LivePayloads)
    \/ create_purchase(1)
    \/ commit(1)

SpecToolkit == InitToolkit /\ [][NextToolkit]_vars

\* The full copy against a MySQL database that was just created: none, some
\* or all of the tables are there, and no row.
FreshSchemas ==
    {NoSchema, CreateTable(NoSchema, "products"),
     CreateTable(CreateTable(NoSchema, "products"), "trades"), FullSchema}

InitFreshDst ==
    /\ backend = "mysql"
    /\ schema \in FreshSchemas
    /\ src \in Sources
    /\ products = {} /\ trades = {} /\ trade_details = {}
    /\ trdAutoInc = 1
    /\ InitRequests
    /\ tool = NoTool
    /\ runs = <<>>

NextFreshDst ==
    \/ copy_start
    \/ copy_table

SpecFreshDst == InitFreshDst /\ [][NextFreshDst]_vars

\* Sales, catalog requests and a full copy bringing products into the
\* store.
InitCatalog ==
    /\ backend = "mysql"
    /\ schema = FullSchema
    /\ products = CatalogA
    /\ trades = {}
    /\ trade_details = {}
    /\ trdAutoInc = 1
    /\ InitRequests
    /\ src = Db(SrcProducts, {}, {})
    /\ tool = NoTool
    /\ runs = <<>>

NextCatalog ==
    \/ \E r \in Reqs :
          \/ Receive(r, CatalogTraffic)
          \/ create_purchase(r)
          \/ commit(r)
          \/ bulk_upsert(r)
          \/ dev_seed(r)
    \/ copy_start
    \/ copy_table

SpecCatalog == InitCatalog /\ [][NextCatalog]_vars

\* The conflict diagnosis and the full copy it prepares, against a MySQL
\* destination.
NextDiagnose ==
    \/ diagnose
    \/ copy_start
    \/ copy_table

SpecDiagnose == InitToolkit /\ [][NextDiagnose]_vars

\* The gap repair, run after run, against a MySQL destination.
NextHeader ==
    \E r \in Reqs :
        \/ Receive(r, HeaderPayloads)
        \/ create_purchase(r)
        \/ commit(r)
        \/ create_purchase_v1(r)
        \/ return_v1(r)

SpecHeader == Init /\ [][NextHeader]_vars

\* The schema doctor run against the application's database.
InitDoctor ==
    /\ backend \in {"sqlite", "mysql"}
    /\ schema \in DoctorSchemas
    /\ products = IF "products" \in schema.tables THEN CatalogA ELSE {}
    /\ trades = {}
    /\ trade_details \in
           IF /\ ~ IndexFound(schema)
              /\ \E c \in schema.columns : c.table = "trade_details" /\ c.name = "DTL_NO"
               THEN DoctorDetails ELSE {{}}
    /\ trdAutoInc = 1
    /\ InitRequests
    /\ src = EmptyDb
    /\ tool = NoTool
    /\ runs = <<>>

NextDoctor ==
    \/ doctor_start
    \/ doctor_table
    \/ doctor_index

SpecDoctor == InitDoctor /\ [][NextDoctor]_vars

InitRepair ==
    /\ backend = "mysql"
    /\ schema = FullSchema
    /\ src \in RepairSources
    /\ \E D \in RepairDestinations :
          /\ products = D.products
          /\ trades = D.trades
          /\ trade_details = D.trade_details
          /\ trdAutoInc = MaxOr0({t.TRD_ID : t \in D.trades}) + 1
    /\ InitRequests
    /\ tool = NoTool
    /\ runs = <<>>

NextRepair ==
    \/ repair_start
    \/ repair_step

SpecRepair == InitRepair /\ [][NextRepair]_vars

\* =================================================================== claims
DetailsOf(t) == {d \in trade_details : d.TRD_ID = t}
Stored(t) == \E x \in trades : x.TRD_ID = t
Accepted(r) == pc[r] = "done" /\ resp[r].status = "accepted"
AcceptedBy(r, h) == Accepted(r) /\ payload[r].handler = h
Flushed(r) == pc[r] = "flushed"
NItems(r) == Len(ItemsOf(payload[r]))

RECURSIVE SumLines(_)
SumLines(S) ==
    IF S = {} THEN 0
    ELSE LET d == CHOOSE x \in S : TRUE
         IN  d.PRD_PRICE * d.QTY + SumLines(S \ {d})

\* C1: every trade header of the store is the header of a request that was
\* answered "accepted" by the committing handler and has all N details of
\* that request's cart beside it, every stored detail has its header, and a
\* request whose transaction is still open has no row in the store: a
\* reader never sees a header with fewer than N details or a detail without
\* its header, a failed flush or commit included.
C1_AllOrNothing ==
    /\ \A t \in trades :
          \E r \in Reqs :
              /\ AcceptedBy(r, "v2") /\ resp[r].id = t.TRD_ID
              /\ Cardinality(DetailsOf(t.TRD_ID)) = NItems(r)
    /\ \A d \in trade_details : Stored(d.TRD_ID)
    /\ \A r \in Reqs :
          Flushed(r) =>
              /\ ~ Stored(txn[r].trade[1].TRD_ID)
              /\ DetailsOf(txn[r].trade[1].TRD_ID) = {}

\* A commit succeeded for a cart of two items and another request's commit
\* failed after its header was flushed (MySQL: it used up an id).
C1_Witness ==
    /\ backend = "mysql" /\ trdAutoInc = 3
    /\ \E r, q \in Reqs :
          /\ AcceptedBy(r, "v2") /\ NItems(r) = 2
          /\ Cardinality(DetailsOf(resp[r].id)) = 2
          /\ payload[q].handler = "v2" /\ pc[q] = "done" /\ resp[q] = ErrorResp
          /\ Cardinality(trades) = 1

\* C2: whenever a handler answers, an answer "accepted" with id t comes with
\* trade t and all the details of the cart committed in the store, and an
\* answer of failure (500) comes with no row added to the store.
C2_AcceptedIsCommitted ==
    [][\A r \in Reqs :
          (pc[r] # "done" /\ pc'[r] = "done") =>
              /\ resp'[r].status = "accepted" =>
                    /\ \E x \in trades' : x.TRD_ID = resp'[r].id
                    /\ Cardinality({d \in trade_details' : d.TRD_ID = resp'[r].id})
                           = NItems(r)
              /\ resp'[r].http = 500 =>
                    /\ trades' = trades
                    /\ trade_details' = trade_details]_vars

\* The cart of request r, and what the handler reads of an item: purchase_v2
\* trims the code and takes a missing quantity as 0; purchase.py takes the
\* validated fields as they are.
Cart(r) == ItemsOf(payload[r])
ReadCode(h, it) == IF h = "v2" THEN Strip(OrEmpty(it.product_code)) ELSE it.product_code
ReadQty(h, it) == IF h = "v2" /\ it.quantity = None THEN 0 ELSE it.quantity
InCatalog(code) == \E p \in products : p.CODE = code
CatalogEntry(code) == CHOOSE p \in products : p.CODE = code

\* The persisted detail of trade t with line number i.
LineOf(t, i) == CHOOSE d \in DetailsOf(t) : d.DTL_NO = i

\* C3: for a cart of N >= 1 items the details the handler builds are N, the
\* i-th carrying line number i and the i-th item's code and quantity
\* (duplicate codes included), and the details committed for the trade
\* carry the line numbers 1..N, each once.
C3_LineNumbers ==
    \A r \in Reqs :
        /\ Flushed(r) =>
              /\ Len(txn[r].details) = NItems(r)
              /\ \A i \in 1..NItems(r) :
                    /\ txn[r].details[i].DTL_NO = i
                    /\ txn[r].details[i].PRD_CODE = ReadCode(payload[r].handler, Cart(r)[i])
                    /\ txn[r].details[i].QTY = ReadQty(payload[r].handler, Cart(r)[i])
        /\ AcceptedBy(r, "v2") =>
              /\ Cardinality(DetailsOf(resp[r].id)) = NItems(r)
              /\ {d.DTL_NO : d \in DetailsOf(resp[r].id)} = 1..NItems(r)
              /\ \A i \in 1..NItems(r) :
                    /\ LineOf(resp[r].id, i).PRD_CODE = ReadCode("v2", Cart(r)[i])
                    /\ LineOf(resp[r].id, i).QTY = ReadQty("v2", Cart(r)[i])

\* A committed cart of two items with the same product code and different
\* quantities, stored under line numbers 1 and 2 in input order.
C3_Witness ==
    \E r \in Reqs :
        /\ AcceptedBy(r, "v2") /\ NItems(r) = 2
        /\ Cart(r)[1].product_code = Cart(r)[2].product_code
        /\ Cart(r)[1].quantity = 3 /\ Cart(r)[2].quantity = 1
        /\ LineOf(resp[r].id, 1).QTY = 3 /\ LineOf(resp[r].id, 2).QTY = 1

\* The effective unit price of an item: the override, else the catalog
\* price of the code the handler reads, else 0.
EffectivePrice(h, it) ==
    IF it.unit_price # None THEN it.unit_price
    ELSE IF InCatalog(ReadCode(h, it)) THEN CatalogEntry(ReadCode(h, it)).PRICE
    ELSE 0

CartSum(h, items) ==
    SumSeq([i \in 1..Len(items) |->
               EffectivePrice(h, items[i]) * ReadQty(h, items[i])])

NonNegative(h, items) ==
    \A i \in 1..Len(items) :
        /\ ReadQty(h, items[i]) >= 0
        /\ (items[i].unit_price = None \/ items[i].unit_price >= 0)

\* floor(n / 10) for n >= 0, by its defining inequality.
Floor10(n) == CHOOSE q \in 0..n : 10 * q <= n /\ n < 10 * q + 10

\* C4: for an accepted purchase with non-negative prices and quantities the
\* response carries subtotal = sum of effective unit price x quantity over
\* the cart and total = subtotal + floor(subtotal / 10); so does the header
\* the handler builds, and the header purchase_v2 commits, whose subtotal
\* is also the sum of PRD_PRICE x QTY over the committed details.
C4_Totals ==
    \A r \in Reqs :
        LET h == payload[r].handler
            sub == CartSum(h, Cart(r))
        IN  /\ (Flushed(r) /\ NonNegative(h, Cart(r))) =>
                  /\ txn[r].trade[1].TTL_AMT_EX_TAX = sub
                  /\ txn[r].trade[1].TOTAL_AMT = sub + Floor10(sub)
            /\ (Accepted(r) /\ NonNegative(h, Cart(r))) =>
                  /\ resp[r].subtotal = sub
                  /\ resp[r].total = sub + Floor10(sub)
            /\ (AcceptedBy(r, "v2") /\ NonNegative(h, Cart(r))) =>
                  /\ \E t \in trades :
                        /\ t.TRD_ID = resp[r].id
                        /\ t.TTL_AMT_EX_TAX = sub
                        /\ t.TOTAL_AMT = sub + Floor10(sub)
                  /\ SumLines(DetailsOf(resp[r].id)) = sub

\* A committed cart mixing an override and a catalog price whose subtotal
\* (7 * 3 + 5 * 1 = 26) is no multiple of 10: tax 2, total 28.
C4_Witness ==
    \E r \in Reqs :
        /\ AcceptedBy(r, "v2") /\ NItems(r) = 2
        /\ resp[r].subtotal = 26 /\ resp[r].total = 28
        /\ Cart(r)[1].unit_price = 7 /\ Cart(r)[2].unit_price = None
        /\ \E t \in trades : t.TRD_ID = resp[r].id /\ t.TOTAL_AMT = 28

\* C5: a handler that takes up a request whose item list is empty or absent
\* answers exactly {id: 0, status: "empty", success: false, subtotal: 0,
\* total: 0} in that step, and the step leaves trades and trade_details as
\* they were and opens no transaction.
C5_EmptyCart ==
    [][\A r \in Reqs :
          (pc[r] = "recv" /\ Cart(r) = <<>> /\ pc'[r] # "recv") =>
              /\ pc'[r] = "done"
              /\ resp'[r] = [http |-> 200, id |-> 0, status |-> "empty",
                             success |-> FALSE, subtotal |-> 0, total |-> 0]
              /\ trades' = trades
              /\ trade_details' = trade_details
              /\ txn'[r].trade = <<>>
              /\ trdAutoInc' = trdAutoInc]_vars

\* A request without an item list was answered "empty" by purchase_v2.
C5_Witness ==
    \E r \in Reqs :
        /\ pc[r] = "done" /\ payload[r].handler = "v2"
        /\ ~ payload[r].items_present
        /\ resp[r].status = "empty" /\ trades = {} /\ trade_details = {}

\* C6: a request with an item whose quantity is not strictly positive is
\* rejected before any write: it never gets as far as the flush, it is
\* never accepted, and no persisted detail has a quantity <= 0.
C6_PositiveQuantities ==
    /\ \A r \in Reqs :
          (Flushed(r) \/ Accepted(r)) =>
              \A i \in 1..NItems(r) :
                  Cart(r)[i].quantity # None /\ Cart(r)[i].quantity > 0
    /\ \A d \in trade_details : d.QTY > 0

\* The product of the catalog with exactly the code the caller sent.
GivenCode(it) == OrEmpty(it.product_code)

\* What C7 says of the detail d built for item it, the catalog being looked
\* up under `code`.
PriceRule(d, it, code) ==
    /\ d.PRD_PRICE =
           IF it.unit_price # None THEN it.unit_price
           ELSE IF InCatalog(code) THEN CatalogEntry(code).PRICE ELSE 0
    /\ ~ InCatalog(code) => (d.PRD_ID = None /\ d.PRD_NAME = code)

\* C7 as stated: the catalog is looked up under the product code of the
\* item as sent, and on a miss that code is the detail's name.
C7_PriceRuleAsSent ==
    \A r \in Reqs :
        /\ Flushed(r) =>
              \A i \in 1..NItems(r) :
                  PriceRule(txn[r].details[i], Cart(r)[i], GivenCode(Cart(r)[i]))
        /\ AcceptedBy(r, "v2") =>
              \A i \in 1..NItems(r) :
                  PriceRule(LineOf(resp[r].id, i), Cart(r)[i], GivenCode(Cart(r)[i]))

\* C7, amended: the price of the detail built for an item is the override
\* when one is given (0 included), else the catalog price of the product
\* whose code is the code the handler reads (purchase_v2: the item's code
\* trimmed of surrounding blanks; purchase.py: the code as sent), else 0; on
\* a miss the detail is built all the same, and committed by purchase_v2,
\* with a null product identifier and the code the handler read as its code
\* and name.
C7_PriceRule ==
    \A r \in Reqs :
        LET h == payload[r].handler
        IN  /\ Flushed(r) =>
                  \A i \in 1..NItems(r) :
                      /\ PriceRule(txn[r].details[i], Cart(r)[i], ReadCode(h, Cart(r)[i]))
                      /\ txn[r].details[i].PRD_CODE = ReadCode(h, Cart(r)[i])
            /\ AcceptedBy(r, "v2") =>
                  \A i \in 1..NItems(r) :
                      /\ \E d \in DetailsOf(resp[r].id) : d.DTL_NO = i
                      /\ PriceRule(LineOf(resp[r].id, i), Cart(r)[i], ReadCode(h, Cart(r)[i]))
                      /\ LineOf(resp[r].id, i).PRD_CODE = ReadCode(h, Cart(r)[i])

\* A committed cart with an override of 0 on a catalog product and an item
\* whose code is in no catalog row: price 0 both, the second with a null
\* product identifier and its code as name.
C7_Witness ==
    \E r \in Reqs :
        /\ AcceptedBy(r, "v2") /\ NItems(r) = 2
        /\ Cart(r)[1].product_code = sA /\ Cart(r)[1].unit_price = 0
        /\ InCatalog(sA) /\ LineOf(resp[r].id, 1).PRD_PRICE = 0
        /\ Cart(r)[2].product_code = sB /\ Cart(r)[2].unit_price = None
        /\ ~ InCatalog(sB)
        /\ LineOf(resp[r].id, 2).PRD_ID = None
        /\ LineOf(resp[r].id, 2).PRD_NAME = sB
        /\ LineOf(resp[r].id, 2).PRD_PRICE = 0

\* The runs of the full copy in apply mode that ended.
CopyRuns == {i \in 1..Len(runs) : runs[i].cmd = "copy" /\ runs[i].apply}
RepairRuns == {i \in 1..Len(runs) : runs[i].cmd = "repair" /\ runs[i].apply}

\* C8: in every state of the store the purchases, the full-copy runs and
\* the gap-repair runs write to, no two trade details with the same trade
\* identifier share a line number.
C8_UniqueLineNumbers ==
    \A d, e \in trade_details :
        (d # e /\ d.TRD_ID = e.TRD_ID) => d.DTL_NO # e.DTL_NO

\* After a full copy, a gap repair that inserted a row and a committed
\* purchase, a trade of the store has three details or more.
C8_Witness ==
    /\ CopyRuns # {}
    /\ \E i \in RepairRuns : runs[i].added # {}
    /\ \E r \in Reqs : AcceptedBy(r, "v2")
    /\ \E t \in trades : Cardinality(DetailsOf(t.TRD_ID)) >= 3

\* No two rows of a table of D share a primary key.
NoDuplicateRows(D) ==
    \A k \in {"products", "trades", "trade_details"} :
        \A x, y \in D[k] : Pk(k, x) = Pk(k, y) => x = y

\* C9: when a full copy in apply mode follows another with the destination
\* as the first left it (and nobody else writes during the second), the
\* second reports inserted = 0 and skipped = the source row count for each
\* of the three tables, adds no row, and leaves the destination as the
\* first run left it, without two rows of one primary key.
C9_SecondCopyIsNoOp ==
    \A i \in CopyRuns :
        (i + 1 \in CopyRuns /\ runs[i + 1].before = runs[i].after
                            /\ ~ runs[i + 1].foreign) =>
            /\ Len(runs[i + 1].report) = Len(Plan)
            /\ \A k \in 1..Len(Plan) :
                  /\ runs[i + 1].report[k].table = Plan[k]
                  /\ runs[i + 1].report[k].inserted = 0
                  /\ runs[i + 1].report[k].skipped = Cardinality(src[Plan[k]])
                  /\ runs[i + 1].report[k].src = Cardinality(src[Plan[k]])
            /\ runs[i + 1].added = {}
            /\ runs[i + 1].after = runs[i].after
            /\ NoDuplicateRows(runs[i + 1].after)

\* Two full copies in a row, the first of which inserted rows of every
\* table and skipped some, the second starting where the first ended.
C9_Witness ==
    /\ Len(runs) = 2 /\ CopyRuns = {1, 2}
    /\ runs[2].before = runs[1].after /\ ~ runs[2].foreign
    /\ \A k \in 1..Len(Plan) : runs[1].report[k].inserted > 0
    /\ runs[1].report[3].skipped > 0
    /\ runs[1].report[3].src > BatchSize

\* Rows of one table that cannot both be in it: the same primary key, or
\* the same unique key (CODE of a product, TRD_ID and a non-null DTL_NO of
\* a trade detail).
KeyConflict(k, x, y) ==
    \/ Pk(k, x) = Pk(k, y)
    \/ k = "products" /\ x.CODE = y.CODE
    \/ k = "trade_details" /\ x.DTL_NO # None
           /\ x.TRD_ID = y.TRD_ID /\ x.DTL_NO = y.DTL_NO

AddedOf(run, k) == {a[2] : a \in {b \in run.added : b[1] = k}}

\* What C10 says of the counters of an ended full copy: a report line for
\* each table (the run was not aborted), inserted + skipped = the source
\* row count, and inserted = the number of rows this run added.
CountsExact(run) ==
    /\ Len(run.report) = Len(Plan)
    /\ \A k \in 1..Len(Plan) :
          /\ run.report[k].src = Cardinality(src[Plan[k]])
          /\ run.report[k].inserted + run.report[k].skipped = run.report[k].src
          /\ run.report[k].inserted = Cardinality(AddedOf(run, Plan[k]))
          /\ AddedOf(run, Plan[k]) \subseteq src[Plan[k]]
          /\ AddedOf(run, Plan[k]) \subseteq run.after[Plan[k]]
          /\ AddedOf(run, Plan[k]) \cap run.before[Plan[k]] = {}

\* The source rows of table k that meet no other row of the destination
\* (as the run leaves it) with the same key.
Unconflicted(run, k) ==
    {x \in src[k] : \A y \in run.after[k] \ {x} : ~ KeyConflict(k, x, y)}

\* C10 as stated: the counters are exact and every source row that
\* conflicts with no destination row is in the destination when the run
\* ends.
C10_CopyCountsAndCompleteness ==
    \A i \in CopyRuns :
        /\ CountsExact(runs[i])
        /\ \A k \in 1..Len(Plan) :
              Unconflicted(runs[i], Plan[k]) \subseteq runs[i].after[Plan[k]]

\* The source rows the destination has a place for: a trade detail needs a
\* line number (DTL_NO is NOT NULL there) and its trade in the destination
\* (the foreign key).
Admissible(run, k, x) ==
    k = "trade_details" =>
        /\ x.DTL_NO # None
        /\ \E t \in run.after.trades : t.TRD_ID = x.TRD_ID

\* C10, amended: the counters are exact, and every source row that
\* conflicts with no destination row and violates no other constraint of
\* the destination (a trade detail with a non-null line number whose trade
\* is in the destination) is in the destination when the run ends.
C10_CopyCounts ==
    \A i \in CopyRuns :
        /\ CountsExact(runs[i])
        /\ \A k \in 1..Len(Plan) :
              \A x \in Unconflicted(runs[i], Plan[k]) :
                  Admissible(runs[i], Plan[k], x) => x \in runs[i].after[Plan[k]]

\* A full copy whose trade_details batches met a conflict: rows inserted,
\* rows skipped, over more than one batch, into a destination that held
\* rows before.
C10_Witness ==
    \E i \in CopyRuns :
        /\ runs[i].before.trade_details # {}
        /\ runs[i].report[3].inserted >= 2
        /\ runs[i].report[3].skipped >= 2
        /\ runs[i].report[3].src > BatchSize

\* The full copies that ended and ran without --apply.
DryCopyRuns == {i \in 1..Len(runs) : runs[i].cmd = "copy" /\ ~ runs[i].apply}

\* C11: a full copy in dry-run mode writes nothing to the destination: its
\* tables (with their columns and indexes) and its rows are after the run
\* what they were before it, and the report holds the source row counts
\* alone (nothing inserted, nothing skipped).
C11_DryCopyWritesNothing ==
    \A i \in DryCopyRuns :
        /\ runs[i].schema_after = runs[i].schema_before
        /\ runs[i].after = runs[i].before
        /\ runs[i].added = {}
        /\ Len(runs[i].report) = Len(Plan)
        /\ \A k \in 1..Len(Plan) :
              /\ runs[i].report[k].src = Cardinality(src[Plan[k]])
              /\ runs[i].report[k].inserted = 0
              /\ runs[i].report[k].skipped = 0

\* The gap-repair runs that ended, dry runs included.
AllRepairRuns == {i \in 1..Len(runs) : runs[i].cmd = "repair"}

\* The source details without a line number, of trade t.
SrcNulls(t) == {d \in src.trade_details : d.DTL_NO = None /\ d.TRD_ID = t}

\* The source detail a planned assignment <<DTL_ID, number>> is about.
SrcRow(a) == CHOOSE d \in src.trade_details : d.DTL_ID = a[1]

\* The line numbers trade t has in database D.
NumbersOf(D, t) ==
    {d.DTL_NO : d \in {x \in D.trade_details : x.TRD_ID = t /\ x.DTL_NO # None}}

\* The k-th smallest positive integer that is not in U.
NthFree(U, k) ==
    CHOOSE n \in 1..(k + Cardinality(U)) :
        n \notin U /\ Cardinality({m \in 1..n : m \notin U}) = k

\* The place of source row d among the null-numbered rows of its trade, by
\* increasing DTL_ID.
RankOf(d) == Cardinality({x \in SrcNulls(d.TRD_ID) : x.DTL_ID <= d.DTL_ID})

\* C12: the assignments a gap-repair run plans (dry run or apply) are about
\* source details without a line number, each once, trade by trade in
\* increasing DTL_ID; the k-th such row of a trade gets the k-th smallest
\* positive integer that the destination, as the run found it, does not use
\* for that trade; so no assigned number is one the destination had for the
\* trade, and no two rows of a trade get the same number.
C12_SmallestUnusedNumbers ==
    \A i \in AllRepairRuns :
        LET P == runs[i].planned
            D == runs[i].before
        IN  /\ \A j \in 1..Len(P) :
                  LET d == SrcRow(P[j])
                  IN  /\ d.DTL_NO = None
                      /\ P[j][2] = NthFree(NumbersOf(D, d.TRD_ID), RankOf(d))
                      /\ P[j][2] \notin NumbersOf(D, d.TRD_ID)
            /\ \A j, k \in 1..Len(P) :
                  j < k =>
                      /\ P[j][1] # P[k][1]
                      /\ SrcRow(P[j]).TRD_ID = SrcRow(P[k]).TRD_ID =>
                            (P[j][1] < P[k][1] /\ P[j][2] # P[k][2])
            /\ ~ runs[i].crashed =>
                  {P[j][1] : j \in 1..Len(P)}
                      = {d.DTL_ID : d \in {x \in src.trade_details : x.DTL_NO = None}}

\* A run that numbered two rows of each of two trades, their DTL_IDs
\* interleaved, stepping over numbers the destination used.
C12_Witness ==
    \E i \in AllRepairRuns :
        /\ runs[i].apply /\ ~ runs[i].crashed
        /\ runs[i].planned = <<<<2, 1>>, <<4, 3>>, <<3, 2>>, <<5, 3>>>>

\* C13: a gap-repair run that follows a successful apply run (one that
\* inserted every row it planned), the source and the destination being as
\* that run left them, finds nothing left to number: it plans no insert,
\* inserts nothing and ends without error.
C13_SecondRepairFindsNothing ==
    \A i \in AllRepairRuns :
        (/\ runs[i].apply /\ ~ runs[i].crashed /\ runs[i].planned # <<>>
         /\ i + 1 \in AllRepairRuns
         /\ runs[i + 1].before = runs[i].after) =>
            /\ runs[i + 1].planned = <<>>
            /\ runs[i + 1].added = {}
            /\ ~ runs[i + 1].crashed
            /\ runs[i + 1].after = runs[i].after

\* The conflict diagnoses that ended.
DiagnoseRuns == {i \in 1..Len(runs) : runs[i].cmd = "diagnose"}

\* What C14 says of the classes of a diagnosis: each source detail is in
\* exactly one, by the order primary identifier, uniqueness key, missing.
OneClassEach(run) ==
    LET c == run.classes
        D == run.before
    IN  /\ c.pk \cup c.uq \cup c.missing = src.trade_details
        /\ c.pk \cap c.uq = {} /\ c.pk \cap c.missing = {}
        /\ c.uq \cap c.missing = {}
        /\ \A s \in src.trade_details :
              /\ s \in c.pk <=> \E d \in D.trade_details : d.DTL_ID = s.DTL_ID
              /\ s \in c.uq <=>
                    /\ s \notin c.pk
                    /\ \E d \in D.trade_details :
                          d.TRD_ID = s.TRD_ID /\ d.DTL_NO = s.DTL_NO

\* The destination once the source's trades are copied into it (the full
\* copy inserts trades before trade details).
WithTrades(D) ==
    [D EXCEPT !.trades = @ \cup {t \in src.trades : ~ TradeConflict(D.trades, t)}]

\* What C14 says of the rows called missing: each can be inserted, and so
\* can all of them together.
MissingInsertable(run) ==
    LET D == WithTrades(run.before)
    IN  /\ \A s \in run.classes.missing : ~ RowViolates(D, "trade_details", s)
        /\ InsertBatch(D, D, "trade_details",
                       _fetch_all_as_dicts(run.classes.missing, "trade_details")).ok

\* C14: the diagnosis puts every source trade detail in exactly one class:
\* primary-identifier conflict when its DTL_ID is in the destination, else
\* uniqueness-key conflict when its (TRD_ID, DTL_NO) is, else missing; and
\* every row it calls missing can be inserted into the destination (its
\* trades copied) without violating a constraint, one at a time and all of
\* them together.
C14_DiagnosisClasses ==
    \A i \in DiagnoseRuns : OneClassEach(runs[i]) /\ MissingInsertable(runs[i])

\* C15: whatever happens next (a bulk upsert, a seeding, another purchase,
\* a full copy adding products), every trade and every trade detail that is
\* persisted stays in the store as it is: product code, name and price of a
\* detail remain those stored at the sale.
C15_SnapshotsKept ==
    [][/\ \A t \in trades : t \in trades'
       /\ \A d \in trade_details : d \in trade_details'
       /\ Cardinality(trade_details') >= Cardinality(trade_details)]_vars

\* A and B were sold while the catalog had A at price 5 and no B (null
\* product id, name "B", price 0); since then B came into the catalog at
\* price 12 and a bulk upsert naming A at price 9 and B was answered
\* "updated 2", and the details are as they were stored.
C15_Witness ==
    /\ \E p \in products : p.CODE = sB /\ p.PRICE = 12
    /\ \E d \in trade_details :
          d.PRD_CODE = sB /\ d.PRD_ID = None /\ d.PRD_NAME = sB /\ d.PRD_PRICE = 0
    /\ \E d \in trade_details :
          d.PRD_CODE = sA /\ d.PRD_ID = 1 /\ d.PRD_NAME = nameA /\ d.PRD_PRICE = 5
    /\ \E r \in Reqs :
          /\ pc[r] = "done" /\ payload[r].handler = "bulk"
          /\ resp[r].updated = 2 /\ resp[r].inserted = 0

\* C16: under every interleaving of concurrent requests, the requests the
\* committing handler (purchase_v2) accepted have trade identifiers that
\* differ from one another, each identifier names a stored trade, and the
\* details stored under it are those of the request's own cart and no
\* other: N of them, the i-th numbered i with the i-th item's code,
\* quantity and price. No request waits for another, except for SQLite's
\* own single-writer lock.
C16_OwnTradePerRequest ==
    \A r \in Reqs :
        AcceptedBy(r, "v2") =>
            /\ \A q \in Reqs \ {r} : AcceptedBy(q, "v2") => resp[q].id # resp[r].id
            /\ Stored(resp[r].id)
            /\ Cardinality(DetailsOf(resp[r].id)) = NItems(r)
            /\ \A i \in 1..NItems(r) :
                  \E d \in DetailsOf(resp[r].id) :
                      /\ d.DTL_NO = i
                      /\ d.PRD_CODE = ReadCode("v2", Cart(r)[i])
                      /\ d.QTY = ReadQty("v2", Cart(r)[i])
                      /\ d.PRD_PRICE = EffectivePrice("v2", Cart(r)[i])

\* Two requests with different carts were both accepted by purchase_v2 on
\* MySQL, the one that got the lower identifier holding the longer cart.
C16_Witness ==
    /\ backend = "mysql"
    /\ \E r, q \in Reqs :
          /\ AcceptedBy(r, "v2") /\ AcceptedBy(q, "v2")
          /\ resp[r].id = 1 /\ resp[q].id = 2
          /\ NItems(r) = 2 /\ NItems(q) = 1
          /\ Cardinality(trade_details) = 3

\* The value the claim gives a header field: the caller's value, trimmed,
\* when it is not blank, else the sentinel.
CallerOr(v, sentinel) ==
    IF v # NoStr /\ \E i \in 1..Len(v) : v[i] # " " THEN Strip(v) ELSE sentinel

HeaderAsClaimed(p, t) ==
    /\ t.EMP_CD = CallerOr(p.cashier_code, s9999999999)
    /\ t.STORE_CD = CallerOr(p.store_code, s30)
    /\ t.POS_NO = CallerOr(p.pos_id, s90)

\* C17: the trade a handler writes for a request (the header it flushed,
\* and the stored trade once the request is accepted) carries the caller's
\* cashier, store and POS terminal code where the caller's value is not
\* blank after trimming, and "9999999999", "30" and "90" where it is.
C17_HeaderFromCaller ==
    \A r \in Reqs :
        /\ txn[r].trade # <<>> => HeaderAsClaimed(payload[r], txn[r].trade[1])
        /\ AcceptedBy(r, "v2") =>
               \A t \in trades :
                   t.TRD_ID = resp[r].id => HeaderAsClaimed(payload[r], t)

\* The tables a run has reported on so far, in the order of its report.
ReportedTables(t) == [i \in 1..Len(t.report) |-> t.report[i].table]

\* C18: a full copy in apply mode takes products, then trades, then trade
\* details. While the copy of trades has not finished the run has added no
\* trade detail, and when the copy of the details begins every detail whose
\* trade is in the source finds its trade in the destination: it cannot be
\* refused for a missing parent.
C18_CopyOrder ==
    (tool.cmd = "copy" /\ tool.apply) =>
        /\ ReportedTables(tool) = SubSeq(<<"products", "trades", "trade_details">>,
                                         1, tool.step - 1)
        /\ tool.step <= 2 => \A a \in tool.added : a[1] # "trade_details"
        /\ tool.step = 1 => \A a \in tool.added : a[1] # "trades"
        /\ tool.step = 3 =>
               \A d \in src.trade_details :
                   (\E t \in src.trades : t.TRD_ID = d.TRD_ID) =>
                       ~ DetailFkViolation(trades, d, TRUE)

\* An apply run into an empty destination reported products, trades and
\* trade details in this order, and added trade 2 and the detail of trade 2.
C18_Witness ==
    \E i \in 1..Len(runs) :
        /\ runs[i].cmd = "copy" /\ runs[i].apply /\ runs[i].before = EmptyDb
        /\ <<"trades", SrcTrade(2)>> \in runs[i].added
        /\ <<"trade_details", SrcDetail(5, 2, 1)>> \in runs[i].added
        /\ ReportedTables(runs[i]) = <<"products", "trades", "trade_details">>

\* The (DTL_ID, DTL_NO) pairs of the details a run left in the destination
\* that were not there before it.
InsertedPairs(run) ==
    {<<d.DTL_ID, d.DTL_NO>> : d \in run.after.trade_details \ run.before.trade_details}

PlannedPairs(run) == {run.planned[k] : k \in 1..Len(run.planned)}

\* C19: a gap repair in dry-run mode leaves the destination as it was, and
\* an apply run started from the same source and destination inserts
\* exactly the rows the dry run printed: the same DTL_IDs under the same
\* line numbers.
C19_DryRunIsApplyPlan ==
    \A i \in 1..Len(runs) :
        (runs[i].cmd = "repair" /\ ~ runs[i].apply) =>
            /\ runs[i].after = runs[i].before
            /\ \A j \in 1..Len(runs) :
                   (/\ runs[j].cmd = "repair" /\ runs[j].apply
                    /\ runs[j].before = runs[i].before) =>
                       InsertedPairs(runs[j]) = PlannedPairs(runs[i])

DoctorRuns == {i \in 1..Len(runs) : runs[i].cmd = "doctor" /\ ~ runs[i].crashed}

IsPlan(a) == a.op \in {"CREATE TABLE", "ADD COLUMN", "CREATE UNIQUE INDEX"}

\* The actions a schema calls for: a table that is missing, a column an
\* existing table lacks, the unique index when none is found.
ActionsCalledFor(S) ==
    {DoctorAction("CREATE TABLE", TableNames[k], "") :
        k \in {j \in 1..Len(TableNames) : TableNames[j] \notin S.tables}}
    \cup {DoctorAction("ADD COLUMN", c.table, c.name) :
            c \in {x \in FullSchema.columns :
                      /\ x.table \in S.tables
                      /\ ~ \E y \in S.columns : y.table = x.table /\ y.name = x.name}}
    \cup (IF IndexFound(S) THEN {}
          ELSE {DoctorAction("CREATE UNIQUE INDEX", "trade_details", "")})

\* C20: a schema doctor run without --apply changes nothing in the storage,
\* neither while it runs nor when it has ended: tables, columns and indexes
\* (and the rows) are those from before the run; all it does is report,
\* and what it reports as to be done is what the schema lacks, none of it
\* applied.
C20_DoctorDryRunChangesNothing ==
    /\ (tool.cmd = "doctor" /\ ~ tool.apply) =>
           schema = tool.schema_before /\ Dst = tool.before
    /\ \A i \in DoctorRuns :
           ~ runs[i].apply =>
               /\ runs[i].schema_after = runs[i].schema_before
               /\ runs[i].after = runs[i].before
               /\ \A k \in 1..Len(runs[i].report) : runs[i].report[k].op # "applied"
               /\ {a \in {runs[i].report[k] : k \in 1..Len(runs[i].report)} : IsPlan(a)}
                      = ActionsCalledFor(runs[i].schema_before)

\* A dry run on a database without table trades, whose trade_details has
\* neither DTL_NO nor the unique index, reported the three kinds of action
\* and left the schema as it was.
C20_Witness ==
    \E i \in DoctorRuns :
        /\ ~ runs[i].apply
        /\ runs[i].schema_before =
               OlderLayout(DropTable(FullSchema, "trades"), TRUE, TRUE)
        /\ runs[i].schema_after = runs[i].schema_before
        /\ \E k \in 1..Len(runs[i].report) :
               runs[i].report[k] = DoctorAction("CREATE TABLE", "trades", "")
        /\ \E k \in 1..Len(runs[i].report) :
               runs[i].report[k] = DoctorAction("ADD COLUMN", "trade_details", "DTL_NO")
        /\ \E k \in 1..Len(runs[i].report) :
               runs[i].report[k] = DoctorAction("CREATE UNIQUE INDEX", "trade_details", "")

ApplyDoctorRuns ==
    {i \in 1..Len(runs) : runs[i].cmd = "doctor" /\ runs[i].apply}

HasColumn(S, t, n) == \E c \in S.columns : c.table = t /\ c.name = n

PlansOf(run) == {a \in {run.report[k] : k \in 1..Len(run.report)} : IsPlan(a)}

\* What the claim says of one apply run, from the schema before it to the
\* schema after it.
Repaired(run) ==
    /\ run.schema_before.tables \subseteq run.schema_after.tables
    /\ run.schema_before.columns \subseteq run.schema_after.columns
    /\ run.schema_before.indexes \subseteq run.schema_after.indexes
    /\ \A k \in 1..Len(TableNames) : TableNames[k] \in run.schema_after.tables
    /\ \A x \in FullSchema.columns : HasColumn(run.schema_after, x.table, x.name)
    /\ \A c \in run.schema_after.columns :
           (/\ c.table \in run.schema_before.tables
            /\ ~ HasColumn(run.schema_before, c.table, c.name)) => ~ c.notnull
    /\ IndexFound(run.schema_after)

\* C21: on SQLite, after a schema doctor run in apply mode every table,
\* column and index from before is still there as it was, every expected
\* table and column exists (a column the run added to an existing table
\* being nullable), a unique index on trade_details (TRD_ID, DTL_NO)
\* exists, and a doctor run right after it plans no CREATE TABLE, ADD
\* COLUMN or CREATE UNIQUE INDEX.
C21_DoctorApplyRepairs ==
    backend = "sqlite" =>
        \A i \in ApplyDoctorRuns :
            /\ Repaired(runs[i])
            /\ (i < Len(runs) /\ runs[i + 1].cmd = "doctor") =>
                   PlansOf(runs[i + 1]) = {}

AllCopyRuns == {i \in 1..Len(runs) : runs[i].cmd = "copy"}

\* What C22 says of the destination: while a full copy runs and when it
\* has ended, every row the destination held before the run is there with
\* the contents it had; and when nobody else wrote during the run, the rows
\* the run left beyond those are source rows, as many per table as the run
\* counted as inserted.
DestinationKept ==
    /\ tool.cmd = "copy" =>
           \A k \in 1..Len(Plan) : tool.before[Plan[k]] \subseteq Dst[Plan[k]]
    /\ \A i \in AllCopyRuns :
           \A k \in 1..Len(Plan) :
               LET new == runs[i].after[Plan[k]] \ runs[i].before[Plan[k]]
               IN  /\ runs[i].before[Plan[k]] \subseteq runs[i].after[Plan[k]]
                   /\ ~ runs[i].foreign =>
                          /\ new \subseteq src[Plan[k]]
                          /\ Cardinality(new) = runs[i].report[k].inserted

\* C22: a full copy never changes or removes a row that was in the
\* destination before it (a source row with the same primary key and other
\* contents does not replace it), the destination after the run is the
\* rows from before plus the rows counted as inserted, and no step writes
\* to the source.
C22_CopyOnlyAdds == [][src' = src /\ DestinationKept']_vars

\* An apply run ended whose destination held product 1 at price 9 while the
\* source holds product 1 at price 5: the destination still has it at 9,
\* not at 5, and the run inserted trades and details next to the rows that
\* were there.
C22_Witness ==
    \E i \in CopyRuns :
        /\ ~ runs[i].foreign
        /\ Product(1, sA, nameA, 9) \in runs[i].before.products
        /\ Product(1, sA, nameA, 5) \in src.products
        /\ Product(1, sA, nameA, 9) \in runs[i].after.products
        /\ Product(1, sA, nameA, 5) \notin runs[i].after.products
        /\ runs[i].before.trade_details # {}
        /\ runs[i].report[2].inserted > 0
        /\ runs[i].report[3].inserted > 0

====
